---- MODULE Spec2Model ----
(***************************************************************************)
(* Model of the probe-station orchestrator (instruments/probe_station.py)  *)
(* and of the source-meter beeper (instrument_drivers/Keithley/            *)
(* Keithley2400.py).  Every instrument call is one step; a call may fail   *)
(* with a communication error, a query may return any short reply.         *)
(***************************************************************************)
EXTENDS Integers, Sequences, FiniteSets, TLC

\* ------------------------------------------------------------------ bounds
\* longest setpoint sequence handed to measure_cvc
MaxLen == 2
\* longest instrument reply, in characters
MaxReply == 4

\* ------------------------------------------------------------- value sets
\* characters of an instrument reply: a digit and the separator
Chars == {"1", ","}
Replies == UNION {[1..n -> Chars] : n \in 0..MaxReply}
\* setpoint voltages, kept as the text written to the source-meter
Setpoints == {"0.03", "0.05"}
SetpointSeqs == UNION {[1..n -> Setpoints] : n \in 0..MaxLen}
\* arguments tried on set_mode
Tags == {"2wire", "4wire", "bogus", "4WIRE", ""}
\* arguments tried on Beeper.beep, as Python literals
FreqInputs == {"None", "64", "1000", "64.9", "65", "800", "800.0", "2e6", "2000001"}
DurInputs == {"None", "-0.1", "0", "0.5", "1", "1.0", "7.9", "7.91", "8"}

VARIABLES
    pc,             \* position of the running call, "none" before construction
    voltmeter,      \* self._voltmeter: "None" or "vm"
    mode,           \* self.mode
    modeBefore,     \* self.mode when the latest call on the station was entered
    op,             \* the latest call
    outcome,        \* how the latest call ended: "running", "ok" or the error
    log,            \* instrument commands issued by the latest call, in order
    tag,            \* argument of the latest set_mode call
    voltages,       \* argument of the latest measure_cvc call
    i,              \* index of the setpoint being measured
    meas_v,         \* measure_cvc local
    meas_i,         \* measure_cvc local
    meas_v_source,  \* measure_cvc local
    voltage_voltmeter, \* the voltmeter reading of the point, until the next point
    resp,           \* the source-meter reply just parsed, until the next point
    ret,            \* value returned by the latest measure_cvc call
    freq,           \* argument of the latest beep call
    duration        \* argument of the latest beep call

vars == <<pc, voltmeter, mode, modeBefore, op, outcome, log, tag, voltages, i,
          meas_v, meas_i, meas_v_source, voltage_voltmeter, resp, ret, freq, duration>>

station == <<voltmeter, mode>>
locals == <<i, meas_v, meas_i, meas_v_source, voltage_voltmeter, resp>>
args == <<tag, voltages, freq, duration>>

\* ---------------------------------------------------------------- helpers
Absent == [present |-> FALSE, arr |-> <<>>]
Array(a) == [present |-> TRUE, arr |-> a]
NoReturn == [returned |-> FALSE, v |-> <<>>, i |-> <<>>, src |-> Absent]
Returned(v, c, s) == [returned |-> TRUE, v |-> v, i |-> c, src |-> s]

Cmd(dev, cmd, arg) == [dev |-> dev, cmd |-> cmd, arg |-> arg]
Write(dev, text) == Cmd(dev, "write", <<text>>)
Ask(dev, text) == Cmd(dev, "ask", <<text>>)

\* str.split(','): the fields between the separators, at least one field
RECURSIVE Split(_)
Split(s) ==
    IF \A k \in 1..Len(s) : s[k] # ","
    THEN <<s>>
    ELSE LET k == CHOOSE j \in 1..Len(s) :
                      s[j] = "," /\ \A h \in 1..(j - 1) : s[h] # ","
         IN <<SubSeq(s, 1, k - 1)>> \o Split(SubSeq(s, k + 1, Len(s)))

\* float(text) succeeds on a non-empty run of digits
IsFloat(s) == Len(s) > 0 /\ \A k \in 1..Len(s) : s[k] = "1"
RECURSIVE Float(_)
Float(s) == IF Len(s) = 0 THEN 0 ELSE 10 * Float(SubSeq(s, 1, Len(s) - 1)) + 1

\* ------------------------------------------------------------ construction
Modes == {"2wire", "4wire"}
Errors == {"ValueError", "RuntimeError", "IndexError", "CommunicationError"}

\* truth value of a voltmeter reference: an instrument object is true
Truthy(vm) == vm # "None"

\* self._delay
delay == "0.01"

\* ProbeStation.nplc(value): the source-meter, then the voltmeter if any
Nplc(vm, value) ==
    <<Cmd("src", "nplcv", <<value>>)>>
    \o (IF Truthy(vm) THEN <<Cmd("vm", "nplc", <<value>>)>> ELSE <<>>)

\* default settings that enable the output before the level is set
DefaultSettingsOutputFirst ==
    << Cmd("src", "terminals", <<"rear">>),
       Write("src", ":SENSe:RESistance:MODE MAN"),
       Cmd("src", "mode", <<"VOLT">>),
       Cmd("src", "output", <<"True">>),
       Cmd("src", "rangev", <<"210e-3">>),
       Cmd("src", "volt", <<"0.03">>) >>

\* the default settings written by __init__ after nplc(1)
DefaultSettings ==
    << Cmd("src", "terminals", <<"rear">>),
       Write("src", ":SENSe:RESistance:MODE MAN"),
       Cmd("src", "mode", <<"VOLT">>),
       Cmd("src", "rangev", <<"210e-3">>),
       Cmd("src", "volt", <<"0.03">>),
       Cmd("src", "output", <<"True">>) >>

\* every instrument call of __init__, in program order
InitProgram(vm) == Nplc(vm, "1") \o DefaultSettings

\* mode selected by __init__
InitialMode(vm) == IF vm # "None" THEN "4wire" ELSE "2wire"

\* no result and no locals: a call is entered, or it raised
FreshFrame ==
    /\ ret' = NoReturn
    /\ i' = 0
    /\ meas_v' = <<>>
    /\ meas_i' = <<>>
    /\ meas_v_source' = <<>>
    /\ voltage_voltmeter' = 0
    /\ resp' = <<>>

\* a call is entered: nothing issued, nothing returned, fresh locals
EnterCall ==
    /\ log' = <<>>
    /\ FreshFrame

\* the arguments of the latest call are t, vs, f and d
CallArgs(t, vs, f, d) ==
    /\ tag' = t
    /\ voltages' = vs
    /\ freq' = f
    /\ duration' = d

\* ProbeStation(source, vm): the fields are assigned, the settings follow
Construct(vm) ==
    /\ pc = "none"
    /\ EnterCall
    /\ CallArgs("", <<>>, "None", "None")
    /\ voltmeter' = vm
    /\ mode' = InitialMode(vm)
    /\ modeBefore' = InitialMode(vm)
    /\ op' = "init"
    /\ outcome' = "running"
    /\ pc' = "init"

\* the next instrument call of __init__ succeeds
InitStep ==
    /\ pc = "init"
    /\ LET prog == InitProgram(voltmeter)
           k == Len(log) + 1
       IN /\ log' = Append(log, prog[k])
          /\ pc' = IF k = Len(prog) THEN "idle" ELSE "init"
          /\ outcome' = IF k = Len(prog) THEN "ok" ELSE "running"
    /\ UNCHANGED <<station, modeBefore, op, args, locals, ret>>

\* the next instrument call of __init__ raises: no station is constructed
InitFail ==
    /\ pc = "init"
    /\ pc' = "none"
    /\ outcome' = "CommunicationError"
    /\ voltmeter' = "None"
    /\ mode' = "unset"
    /\ modeBefore' = "unset"
    /\ UNCHANGED <<op, log, args, locals, ret>>

\* -------------------------------------------------------------- set_mode
\* set_mode without the voltmeter test
SetModeOutcomeNoVoltmeterCheck(m, vm) ==
    IF m \notin {"2wire", "4wire"} THEN "ValueError" ELSE "ok"

\* set_mode raising the argument error for a missing voltmeter
SetModeOutcomeWrongError(m, vm) ==
    IF m \notin {"2wire", "4wire"} THEN "ValueError"
    ELSE IF m = "4wire" /\ ~Truthy(vm) THEN "ValueError"
    ELSE "ok"

\* how set_mode(m) ends
SetModeOutcome(m, vm) ==
    IF m \notin {"2wire", "4wire"} THEN "ValueError"
    ELSE IF m = "4wire" /\ ~Truthy(vm) THEN "RuntimeError"
    ELSE "ok"

\* set_mode assigning the mode before it validates the argument
SetModeAssignFirst(m) ==
    /\ pc = "idle"
    /\ EnterCall
    /\ CallArgs(m, <<>>, "None", "None")
    /\ op' = "set_mode"
    /\ modeBefore' = mode
    /\ outcome' = SetModeOutcome(m, voltmeter)
    /\ mode' = m
    /\ UNCHANGED <<pc, voltmeter>>

SetMode(m) ==
    /\ pc = "idle"
    /\ EnterCall
    /\ CallArgs(m, <<>>, "None", "None")
    /\ op' = "set_mode"
    /\ modeBefore' = mode
    /\ outcome' = SetModeOutcome(m, voltmeter)
    /\ mode' = IF SetModeOutcome(m, voltmeter) = "ok" THEN m ELSE mode
    /\ UNCHANGED <<pc, voltmeter>>

\* ----------------------------------------------------------- measure_cvc
\* measure_cvc(vs) is entered: the three result lists are empty
MeasureCvc(vs) ==
    /\ pc = "idle"
    /\ EnterCall
    /\ CallArgs("", vs, "None", "None")
    /\ op' = "measure_cvc"
    /\ outcome' = "running"
    /\ pc' = "cvc_loop"
    /\ modeBefore' = mode
    /\ UNCHANGED station

\* a cycle chosen by the presence of a voltmeter instead of the mode
BranchByVoltmeter(m) == IF voltmeter # "None" THEN "m4_init_src" ELSE "m2_init"

\* position after the setpoint write: the cycle of the selected mode
Branch(m) == IF m = "4wire" THEN "m4_init_src" ELSE "m2_init"

\* a loop that stops one setpoint early
MoreSetpointsOffByOne(k, vs) == k + 1 < Len(vs)

\* for v_set in voltages: after k setpoints, is there another one
MoreSetpoints(k, vs) == k < Len(vs)

\* for v_set in voltages: self._source.volt(v_set)
CvcVolt ==
    /\ pc = "cvc_loop"
    /\ MoreSetpoints(i, voltages)
    /\ i' = i + 1
    /\ log' = Append(log, Cmd("src", "volt", <<voltages[i + 1]>>))
    /\ pc' = Branch(mode)
    /\ resp' = <<>>
    /\ voltage_voltmeter' = 0
    /\ UNCHANGED <<station, modeBefore, op, outcome, args, meas_v, meas_i,
                   meas_v_source, ret>>

\* _measure_cv_4_wire: self._source.write('INIT')
M4InitSrc ==
    /\ pc = "m4_init_src"
    /\ log' = Append(log, Write("src", "INIT"))
    /\ pc' = "m4_sleep"
    /\ UNCHANGED <<station, modeBefore, op, outcome, args, locals, ret>>

\* _measure_cv_4_wire: time.sleep(self._delay)
M4Sleep ==
    /\ pc = "m4_sleep"
    /\ log' = Append(log, Cmd("host", "sleep", <<delay>>))
    /\ pc' = "m4_init_vm"
    /\ UNCHANGED <<station, modeBefore, op, outcome, args, locals, ret>>

\* _measure_cv_4_wire: self._voltmeter.write('INIT')
M4InitVm ==
    /\ pc = "m4_init_vm"
    /\ log' = Append(log, Write("vm", "INIT"))
    /\ pc' = "m4_fetc_vm"
    /\ UNCHANGED <<station, modeBefore, op, outcome, args, locals, ret>>

\* an error that is recorded while the sweep goes on with the next setpoint
RaiseAndContinue(e) ==
    /\ pc' = "cvc_loop"
    /\ outcome' = e
    /\ UNCHANGED <<ret, i, meas_v, meas_i, meas_v_source, voltage_voltmeter>>

\* an exception leaves measure_cvc: the sweep is over, nothing is returned
\* and the lists built so far are gone
Raise(e) ==
    /\ pc' = "idle"
    /\ outcome' = e
    /\ ret' = NoReturn
    /\ i' = 0
    /\ meas_v' = <<>>
    /\ meas_i' = <<>>
    /\ meas_v_source' = <<>>
    /\ voltage_voltmeter' = 0

\* float(self._voltmeter.ask('FETC?'))
M4FetcVm(reply) ==
    /\ pc = "m4_fetc_vm"
    /\ log' = Append(log, Ask("vm", "FETC?"))
    /\ IF IsFloat(reply)
       THEN /\ voltage_voltmeter' = Float(reply)
            /\ pc' = "m4_fetc_src"
            /\ UNCHANGED <<outcome, i, meas_v, meas_i, meas_v_source, resp, ret>>
       ELSE /\ Raise("ValueError")
            /\ UNCHANGED resp
    /\ UNCHANGED <<station, modeBefore, op, args>>

\* resp = ask('FETC?').split(','); float(fields[0]); float(fields[1]):
\* the error raised, or "ok"
ParseOutcome(reply) ==
    LET fields == Split(reply)
    IN IF ~IsFloat(fields[1]) THEN "ValueError"
       ELSE IF Len(fields) < 2 THEN "IndexError"
       ELSE IF ~IsFloat(fields[2]) THEN "ValueError"
       ELSE "ok"

\* (voltage, current) of a source-meter reply that parses
ParseVC(reply) ==
    LET fields == Split(reply)
    IN [voltage |-> Float(fields[1]), current |-> Float(fields[2])]

\* the two fields of the source-meter reply taken in the other order
Measure4Swapped(vvm, reply) ==
    <<vvm, ParseVC(reply).voltage, ParseVC(reply).current>>

\* _measure_cv_4_wire returns (voltage_voltmeter, current, voltage_source)
Measure4(vvm, reply) ==
    <<vvm, ParseVC(reply).current, ParseVC(reply).voltage>>

\* _measure_cv_2_wire returns (voltage, current)
Measure2(reply) ==
    <<ParseVC(reply).voltage, ParseVC(reply).current>>

\* the source-meter query of the 4-wire cycle, and the three appends
M4FetcSrc(reply) ==
    /\ pc = "m4_fetc_src"
    /\ log' = Append(log, Ask("src", "FETC?"))
    /\ IF ParseOutcome(reply) = "ok"
       THEN /\ meas_v' = Append(meas_v, Measure4(voltage_voltmeter, reply)[1])
            /\ meas_i' = Append(meas_i, Measure4(voltage_voltmeter, reply)[2])
            /\ meas_v_source' = Append(meas_v_source, Measure4(voltage_voltmeter, reply)[3])
            /\ resp' = reply
            /\ pc' = "cvc_loop"
            /\ UNCHANGED <<outcome, i, voltage_voltmeter, ret>>
       ELSE /\ Raise(ParseOutcome(reply))
            /\ resp' = reply
    /\ UNCHANGED <<station, modeBefore, op, args>>

\* _measure_cv_2_wire: self._source.write('INIT')
M2Init ==
    /\ pc = "m2_init"
    /\ log' = Append(log, Write("src", "INIT"))
    /\ pc' = "m2_fetc"
    /\ UNCHANGED <<station, modeBefore, op, outcome, args, locals, ret>>

\* the source-meter query of the 2-wire cycle, and the two appends
M2Fetc(reply) ==
    /\ pc = "m2_fetc"
    /\ log' = Append(log, Ask("src", "FETC?"))
    /\ IF ParseOutcome(reply) = "ok"
       THEN /\ meas_v' = Append(meas_v, Measure2(reply)[1])
            /\ meas_i' = Append(meas_i, Measure2(reply)[2])
            /\ resp' = reply
            /\ pc' = "cvc_loop"
            /\ UNCHANGED <<outcome, i, meas_v_source, voltage_voltmeter, ret>>
       ELSE /\ Raise(ParseOutcome(reply))
            /\ resp' = reply
    /\ UNCHANGED <<station, modeBefore, op, args>>

\* a third element that is an array in either mode
ThirdValueAlwaysArray(m, src) == Array(src)

\* third element of the returned tuple
ThirdValue(m, src) == IF m = "4wire" THEN Array(src) ELSE Absent

\* the loop is over: the arrays are built and returned
CvcReturn ==
    /\ pc = "cvc_loop"
    /\ ~MoreSetpoints(i, voltages)
    /\ ret' = Returned(meas_v, meas_i, ThirdValue(mode, meas_v_source))
    /\ outcome' = "ok"
    /\ pc' = "idle"
    /\ i' = 0
    /\ meas_v' = <<>>
    /\ meas_i' = <<>>
    /\ meas_v_source' = <<>>
    /\ voltage_voltmeter' = 0
    /\ resp' = <<>>
    /\ UNCHANGED <<station, modeBefore, op, args, log>>

\* positions at which measure_cvc is about to write to or query an instrument
IOPositions ==
    {"m4_init_src", "m4_init_vm", "m4_fetc_vm", "m4_fetc_src", "m2_init", "m2_fetc"}

\* the pending write or query of the sweep raises instead of completing
CvcCommFail ==
    /\ \/ pc \in IOPositions
       \/ pc = "cvc_loop" /\ MoreSetpoints(i, voltages)
    /\ Raise("CommunicationError")
    /\ resp' = <<>>
    /\ UNCHANGED <<station, modeBefore, op, args, log>>

\* ----------------------------------------------------------------- Beeper
\* the numeric value of a Python literal, in hundredths
Scaled ==
    [x \in (FreqInputs \cup DurInputs) \ {"None"} |->
        CASE x = "64" -> 6400
          [] x = "64.9" -> 6490
          [] x = "800.0" -> 80000
          [] x = "1000" -> 100000
          [] x = "0.5" -> 50
          [] x = "8" -> 800
          [] x = "65" -> 6500
          [] x = "800" -> 80000
          [] x = "2e6" -> 200000000
          [] x = "2000001" -> 200000100
          [] x = "-0.1" -> -10
          [] x = "0" -> 0
          [] x = "1" -> 100
          [] x = "1.0" -> 100
          [] x = "7.9" -> 790
          [] x = "7.91" -> 791]

\* the text an f-string renders for a value
PyStr(x) == IF x = "2e6" THEN "2000000.0" ELSE x

\* 65 and 2e6, 0 and 7.9, in hundredths
FreqMin == 6500
FreqMax == 200000000
DurMin == 0
DurMax == 790

\* argument checks with open intervals
BeepCheckStrict(f, d) ==
    IF f = "None" \/ d = "None" THEN "ValueError"
    ELSE IF ~(FreqMin < Scaled[f] /\ Scaled[f] < FreqMax) THEN "ValueError"
    ELSE IF ~(DurMin < Scaled[d] /\ Scaled[d] < DurMax) THEN "ValueError"
    ELSE "ok"

\* how the argument checks of beep(f, d) end
BeepCheck(f, d) ==
    IF f = "None" \/ d = "None" THEN "ValueError"
    ELSE IF ~(FreqMin <= Scaled[f] /\ Scaled[f] <= FreqMax) THEN "ValueError"
    ELSE IF ~(DurMin <= Scaled[d] /\ Scaled[d] <= DurMax) THEN "ValueError"
    ELSE "ok"

\* self.parent.write(f":SYSTem:BEEPer {freq},{duration}")
BeepCommand(f, d) ==
    Cmd("src", "write", <<":SYSTem:BEEPer ", PyStr(f), ",", PyStr(d)>>)

\* the body of beep(f, d); the write is delivered or raises
BeepBody(f, d, delivered) ==
    /\ pc \in {"none", "idle"}
    /\ FreshFrame
    /\ CallArgs("", <<>>, f, d)
    /\ IF BeepCheck(f, d) # "ok"
       THEN /\ outcome' = BeepCheck(f, d)
            /\ log' = <<>>
            /\ delivered
       ELSE IF delivered
       THEN /\ outcome' = "ok"
            /\ log' = <<BeepCommand(f, d)>>
       ELSE /\ outcome' = "CommunicationError"
            /\ log' = <<>>
    /\ UNCHANGED <<pc, station, modeBefore>>

Beep(f, d, delivered) ==
    /\ BeepBody(f, d, delivered)
    /\ op' = "beep"

\* success(): self.beep(800, 1)
Success(delivered) ==
    /\ BeepBody("800", "1", delivered)
    /\ op' = "success"

\* ------------------------------------------------------------ specification
Init ==
    /\ pc = "none"
    /\ voltmeter = "None"
    /\ mode = "unset"
    /\ modeBefore = "unset"
    /\ op = "none"
    /\ outcome = "ok"
    /\ log = <<>>
    /\ tag = ""
    /\ voltages = <<>>
    /\ i = 0
    /\ meas_v = <<>>
    /\ meas_i = <<>>
    /\ meas_v_source = <<>>
    /\ voltage_voltmeter = 0
    /\ resp = <<>>
    /\ ret = NoReturn
    /\ freq = "None"
    /\ duration = "None"

Next ==
    \/ \E vm \in {"None", "vm"} : Construct(vm)
    \/ InitStep
    \/ InitFail
    \/ \E m \in Tags : SetMode(m)
    \/ \E vs \in SetpointSeqs : MeasureCvc(vs)
    \/ CvcVolt
    \/ M4InitSrc
    \/ M4Sleep
    \/ M4InitVm
    \/ \E reply \in Replies : M4FetcVm(reply)
    \/ \E reply \in Replies : M4FetcSrc(reply)
    \/ M2Init
    \/ \E reply \in Replies : M2Fetc(reply)
    \/ CvcReturn
    \/ CvcCommFail

Spec == Init /\ [][Next]_vars

\* the beeper of a source-meter, driven on its own
NextBeeper ==
    \/ \E f \in FreqInputs, d \in DurInputs, delivered \in BOOLEAN : Beep(f, d, delivered)
    \/ \E delivered \in BOOLEAN : Success(delivered)

SpecBeeper == Init /\ [][NextBeeper]_vars

\* ------------------------------------------------------------------ claims
IsPrefix(a, b) == Len(a) <= Len(b) /\ SubSeq(b, 1, Len(a)) = a
Last(a) == a[Len(a)]
NoComma(r) == \A k \in 1..Len(r) : r[k] # ","

\* the commands of one 4-wire point and of one 2-wire point, for setpoint v
Cycle4(v) ==
    << [dev |-> "src", cmd |-> "volt", arg |-> <<v>>],
       [dev |-> "src", cmd |-> "write", arg |-> <<"INIT">>],
       [dev |-> "host", cmd |-> "sleep", arg |-> <<"0.01">>],
       [dev |-> "vm", cmd |-> "write", arg |-> <<"INIT">>],
       [dev |-> "vm", cmd |-> "ask", arg |-> <<"FETC?">>],
       [dev |-> "src", cmd |-> "ask", arg |-> <<"FETC?">>] >>
Cycle2(v) ==
    << [dev |-> "src", cmd |-> "volt", arg |-> <<v>>],
       [dev |-> "src", cmd |-> "write", arg |-> <<"INIT">>],
       [dev |-> "src", cmd |-> "ask", arg |-> <<"FETC?">>] >>
RECURSIVE Sweep4(_)
Sweep4(vs) == IF vs = <<>> THEN <<>> ELSE Cycle4(Head(vs)) \o Sweep4(Tail(vs))
RECURSIVE Sweep2(_)
Sweep2(vs) == IF vs = <<>> THEN <<>> ELSE Cycle2(Head(vs)) \o Sweep2(Tail(vs))

\* C1: once a station is being or has been constructed, mode is '2wire' or
\* '4wire', mode '4wire' implies a voltmeter reference, and until the first
\* call after construction mode is '4wire' exactly when a voltmeter was passed
C1_ModeInvariant ==
    pc # "none" =>
        /\ mode \in {"2wire", "4wire"}
        /\ mode = "4wire" => voltmeter = "vm"
        /\ op = "init" => (mode = "4wire" <=> voltmeter = "vm")

\* a failed set_mode('4wire') on a station without a voltmeter
C1_Witness ==
    /\ op = "set_mode"
    /\ tag = "4wire"
    /\ voltmeter = "None"
    /\ outcome # "ok"
    /\ mode = "2wire"

\* C2: set_mode('4wire') raises RuntimeError and leaves mode unchanged on a
\* station without a voltmeter; with a voltmeter it succeeds from either mode
\* and leaves mode = '4wire', also when mode was '4wire' already
C2_SetMode4Wire ==
    (op = "set_mode" /\ tag = "4wire") =>
        IF voltmeter = "None"
        THEN outcome = "RuntimeError" /\ mode = modeBefore /\ mode = "2wire"
        ELSE outcome = "ok" /\ mode = "4wire" /\ modeBefore \in {"2wire", "4wire"}

\* set_mode('4wire') repeated on a station that is in 4-wire mode
C2_Witness ==
    /\ op = "set_mode"
    /\ tag = "4wire"
    /\ voltmeter = "vm"
    /\ modeBefore = "4wire"
    /\ mode = "4wire"
    /\ outcome = "ok"

\* C3: set_mode(tag) with a tag outside {'2wire', '4wire'} raises ValueError
\* with or without a voltmeter (never the voltmeter error), leaves mode
\* unchanged and issues no instrument command
C3_SetModeBadTag ==
    (op = "set_mode" /\ tag \notin {"2wire", "4wire"}) =>
        /\ outcome = "ValueError"
        /\ mode = modeBefore
        /\ log = <<>>

\* a bad tag on a station without a voltmeter
C3_Witness ==
    /\ op = "set_mode"
    /\ tag = "bogus"
    /\ voltmeter = "None"
    /\ outcome = "ValueError"

\* C4, in a state: after k points the lists hold k entries, the latest entries
\* are the values of the reply read for setpoint k, and the returned voltage
\* and current arrays (and the source-voltage array in 4-wire mode) hold
\* exactly one entry per setpoint
C4_State ==
    /\ (op = "measure_cvc" /\ pc = "cvc_loop") =>
          /\ Len(meas_v) = i
          /\ Len(meas_i) = i
          /\ Len(meas_v_source) = IF mode = "4wire" THEN i ELSE 0
          /\ i > 0 =>
                /\ Last(log) = [dev |-> "src", cmd |-> "ask", arg |-> <<"FETC?">>]
                /\ meas_i[i] = Float(Split(resp)[2])
                /\ meas_v[i] = IF mode = "4wire" THEN voltage_voltmeter
                               ELSE Float(Split(resp)[1])
    /\ ret.returned =>
          /\ op = "measure_cvc"
          /\ outcome = "ok"
          /\ Len(ret.v) = Len(voltages)
          /\ Len(ret.i) = Len(voltages)
          /\ mode = "4wire" => Len(ret.src.arr) = Len(voltages)

\* C4, in a step: a point appends to the lists and changes no earlier entry,
\* and the arrays returned are the lists as built
C4_Step ==
    /\ (pc \in {"m4_fetc_src", "m2_fetc"} /\ pc' = "cvc_loop") =>
          /\ IsPrefix(meas_v, meas_v') /\ Len(meas_v') = Len(meas_v) + 1
          /\ IsPrefix(meas_i, meas_i') /\ Len(meas_i') = Len(meas_i) + 1
          /\ IsPrefix(meas_v_source, meas_v_source')
    /\ (pc = "cvc_loop" /\ pc' \in {"m4_init_src", "m2_init"}) =>
          /\ i' = i + 1
          /\ Last(log') = [dev |-> "src", cmd |-> "volt", arg |-> <<voltages[i']>>]
          /\ UNCHANGED <<meas_v, meas_i, meas_v_source>>
    /\ (pc = "cvc_loop" /\ ret'.returned) =>
          /\ ret'.v = meas_v
          /\ ret'.i = meas_i
          /\ ret'.src.present => ret'.src.arr = meas_v_source

\* C4: a measure_cvc call in which nothing fails returns voltage and current
\* sequences of length N whose i-th entries are the values read for the i-th
\* setpoint, and in 4-wire mode a third sequence of length N
C4_SweepLengths == [](C4_State) /\ [][C4_Step]_vars

\* a 4-wire sweep of two setpoints has returned
C4_Witness ==
    /\ ret.returned
    /\ mode = "4wire"
    /\ Len(voltages) = 2
    /\ Len(ret.v) = 2
    /\ ret.v[1] # ret.v[2]

\* C5: the third value returned by measure_cvc is a sequence exactly when the
\* mode is '4wire', for every N including 0; in 2-wire mode it is absent even
\* on a station that holds a voltmeter
C5_ThirdValue ==
    ret.returned =>
        /\ ret.src.present <=> mode = "4wire"
        /\ mode = "2wire" => ret.src = [present |-> FALSE, arr |-> <<>>]

\* an empty sweep in 2-wire mode on a station that holds a voltmeter
C5_Witness ==
    /\ ret.returned
    /\ voltages = <<>>
    /\ mode = "2wire"
    /\ voltmeter = "vm"
    /\ ~ret.src.present

\* C6: when a write, a query or a parse fails during measure_cvc the sweep is
\* over: the error is the outcome of the call, nothing is returned, the values
\* of earlier setpoints are gone, and the commands issued stop where the
\* failure happened, each issued once; a reply without a comma that starts
\* with a number raises IndexError
C6_AbortOnError ==
    (op = "measure_cvc" /\ outcome \in Errors) =>
        /\ pc = "idle"
        /\ ~ret.returned
        /\ meas_v = <<>> /\ meas_i = <<>> /\ meas_v_source = <<>>
        /\ IsPrefix(log, IF mode = "4wire" THEN Sweep4(voltages) ELSE Sweep2(voltages))
        /\ outcome \in {"ValueError", "IndexError"} =>
              /\ Last(log).cmd = "ask"
              /\ Len(log) % (IF mode = "4wire" THEN 6 ELSE 3)
                    \in (IF mode = "4wire" THEN {0, 5} ELSE {0})
        /\ outcome = "IndexError" <=> (resp # <<>> /\ NoComma(resp))

\* the source-meter reply of the second setpoint has no comma
C6_Witness ==
    /\ op = "measure_cvc"
    /\ outcome = "IndexError"
    /\ mode = "4wire"
    /\ Len(log) = 12
    /\ Len(voltages) = 2
    /\ resp = <<"1", "1">>

\* C7: beep(freq, duration) raises ValueError and writes nothing when an
\* argument is omitted, when freq is outside [65, 2000000] or when duration
\* is outside [0, 7.9]; the boundary values are accepted; an accepted call
\* issues exactly one write that embeds both values; success() issues the
\* write of beep(800, 1)
C7_Beep ==
    /\ op = "beep" =>
          IF \/ freq \in {"None", "64", "64.9", "2000001"}
             \/ duration \in {"None", "-0.1", "7.91", "8"}
          THEN outcome = "ValueError" /\ log = <<>>
          ELSE /\ outcome \in {"ok", "CommunicationError"}
               /\ outcome = "CommunicationError" => log = <<>>
               /\ outcome = "ok" =>
                     log = << [dev |-> "src", cmd |-> "write",
                               arg |-> <<":SYSTem:BEEPer ",
                                         IF freq = "2e6" THEN "2000000.0" ELSE freq,
                                         ",", duration>>] >>
    /\ op = "success" =>
          /\ outcome \in {"ok", "CommunicationError"}
          /\ outcome = "CommunicationError" => log = <<>>
          /\ outcome = "ok" =>
                log = << [dev |-> "src", cmd |-> "write",
                          arg |-> <<":SYSTem:BEEPer ", "800", ",", "1">>] >>

\* a beep at the lowest frequency and the longest duration is written
C7_Witness ==
    /\ op = "beep"
    /\ freq = "65"
    /\ duration = "7.9"
    /\ outcome = "ok"
    /\ Len(log) = 1

\* C8: in 4-wire mode the commands of a sweep are, per setpoint and in this
\* order, the setpoint write, INIT to the source-meter, the delay, INIT to
\* the voltmeter, FETC? to the voltmeter, FETC? to the source-meter, the
\* points one after the other; the triple of a point is the voltmeter
\* voltage, the second field of the source-meter reply as current and its
\* first field as source voltage
C8_FourWireOrder ==
    (op = "measure_cvc" /\ mode = "4wire") =>
        /\ IsPrefix(log, Sweep4(voltages))
        /\ outcome = "ok" => log = Sweep4(voltages)
        /\ pc = "m4_sleep" => Last(log) = [dev |-> "src", cmd |-> "write", arg |-> <<"INIT">>]
        /\ pc = "m4_fetc_vm" => Last(log) = [dev |-> "vm", cmd |-> "write", arg |-> <<"INIT">>]
        /\ (pc = "cvc_loop" /\ i > 0) =>
              /\ meas_v[i] = voltage_voltmeter
              /\ meas_i[i] = Float(Split(resp)[2])
              /\ meas_v_source[i] = Float(Split(resp)[1])
              /\ resp = <<"1", "1", ",", "1">> =>
                    meas_i[i] = 1 /\ meas_v_source[i] = 11

\* the second point of a 4-wire sweep read '11,1' from the source-meter
C8_Witness ==
    /\ op = "measure_cvc"
    /\ mode = "4wire"
    /\ pc = "cvc_loop"
    /\ i = 2
    /\ resp = <<"1", "1", ",", "1">>
    /\ Len(log) = 12

\* the source-meter commands of a log, the integration-time write left out
RECURSIVE SourceSettings(_)
SourceSettings(l) ==
    IF l = <<>> THEN <<>>
    ELSE IF Head(l).dev = "src" /\ Head(l).cmd # "nplcv"
         THEN <<Head(l)>> \o SourceSettings(Tail(l))
         ELSE SourceSettings(Tail(l))

\* the initialization sequence: rear terminals, manual resistance sense,
\* voltage function, 210 mV range, 30 mV level, output on
FixedInit ==
    << [dev |-> "src", cmd |-> "terminals", arg |-> <<"rear">>],
       [dev |-> "src", cmd |-> "write", arg |-> <<":SENSe:RESistance:MODE MAN">>],
       [dev |-> "src", cmd |-> "mode", arg |-> <<"VOLT">>],
       [dev |-> "src", cmd |-> "rangev", arg |-> <<"210e-3">>],
       [dev |-> "src", cmd |-> "volt", arg |-> <<"0.03">>],
       [dev |-> "src", cmd |-> "output", arg |-> <<"True">>] >>

\* C9: construction issues on the source-meter, after the integration-time
\* write, the six settings in the fixed order, output last; a construction
\* that fails has issued a prefix of them and nothing after the failing step
C9_InitSequence ==
    op = "init" =>
        /\ IsPrefix(SourceSettings(log), FixedInit)
        /\ (pc = "idle" <=> outcome = "ok")
        /\ outcome = "ok" => SourceSettings(log) = FixedInit
        /\ (outcome = "CommunicationError" /\ Len(log) > 0) =>
              Last(log) # Last(FixedInit)
        /\ \A k \in 1..Len(log) :
              log[k].cmd = "output" =>
                  \E a, b, c \in 1..(k - 1) :
                      /\ a < b /\ b < c
                      /\ log[a].cmd = "mode"
                      /\ log[b].cmd = "rangev"
                      /\ log[c].cmd = "volt"

\* a station with a voltmeter has been constructed
C9_Witness ==
    /\ op = "init"
    /\ pc = "idle"
    /\ outcome = "ok"
    /\ voltmeter = "vm"
    /\ Len(log) = 8

\* C10: in 2-wire mode the commands of a sweep are, per setpoint and in this
\* order, the setpoint write, INIT and one FETC? query, all to the
\* source-meter and none to the voltmeter, also on a station that holds a
\* voltmeter; measure_cvc leaves the mode as it found it in either mode
C10_TwoWireOrder ==
    op = "measure_cvc" =>
        /\ mode = modeBefore
        /\ mode = "2wire" =>
              /\ IsPrefix(log, Sweep2(voltages))
              /\ outcome = "ok" => log = Sweep2(voltages)
              /\ \A k \in 1..Len(log) : log[k].dev = "src"

\* a 2-wire sweep of two setpoints has returned on a station with a voltmeter
C10_Witness ==
    /\ op = "measure_cvc"
    /\ outcome = "ok"
    /\ ret.returned
    /\ mode = "2wire"
    /\ voltmeter = "vm"
    /\ Len(voltages) = 2
    /\ Len(log) = 6

====
